---- MODULE Spec2Model ----
(***************************************************************************)
(* Model of the ban-test scraper: the ban-signal detector and loadConfig   *)
(* (src/src/ban-detector.ts), the behaviour simulation                     *)
(* (src/src/human-behavior.ts), the session object BaseScraper and         *)
(* runRateLimitTest (src/unnamed/part_001, scraper.ts and index.ts),       *)
(* MercariScraper.scrape and batchScrape (src/src/mercari-scraper.ts).     *)
(*                                                                         *)
(* Strings that the code inspects (URLs) are sequences of tokens, so that  *)
(* String.includes and the URL parser are computed, not assumed.           *)
(* Async functions are split at their awaits.                              *)
(***************************************************************************)
EXTENDS Integers, Sequences, FiniteSets, TLC

----------------------------------------------------------------------------
(* Bounds of the model *)

\* navigate calls accepted on one session object
MaxVisits == 2
\* response events delivered to the page during one visit
MaxResponses == 2
\* initialize() calls on one session object
MaxInits == 2
\* length of the target list given to batchScrape
MaxUrls == 3

----------------------------------------------------------------------------
(* Values *)

\* httpError: number | null -- the null of the number-typed field
NullCode == -1
\* intervalSinceLastMs: number | undefined
Undefined == -1
\* blockedUrl: string | null
NullUrl == <<>>

Scheme == "https://"
PathTokens == {"/item", "/item2", "/error", "/block", "/access-denied", "/forbidden"}

ItemUrl == <<Scheme, "jp.mercari.com", "/item">>
Item2Url == <<Scheme, "jp.mercari.com", "/item2">>
ErrorUrl == <<Scheme, "jp.mercari.com", "/error">>
SubdomainUrl == <<Scheme, "www.", "jp.mercari.com", "/item">>
LookalikeUrl == <<Scheme, "evil-", "jp.mercari.com", ".attacker.net", "/item">>
ForeignUrl == <<Scheme, "captcha.example.net", "/item">>
MalformedUrl == <<"jp.mercari.com", "/item">>

\* URLs a page can end on after a navigation that did not raise (page.url())
FinalUrls == {ItemUrl, Item2Url, ErrorUrl, SubdomainUrl, LookalikeUrl, ForeignUrl}
\* URLs a caller can pass as the target / expected URL
CallerUrls == {ItemUrl, Item2Url, MalformedUrl}

BLOCK_PAGE_PATTERNS == << <<"/error">>, <<"/block">>, <<"/access-denied">>, <<"/forbidden">> >>

BlockingStatus == {403, 429, 503, 520, 521, 522, 523, 524}
\* status codes of the responses the model delivers
Statuses == {200, 403, 429}

----------------------------------------------------------------------------
(* String helpers *)

\* String.prototype.includes on token strings
Includes(s, t) ==
  \E i \in 0..(Len(s) - Len(t)) : SubSeq(s, i + 1, i + Len(t)) = t

\* new URL(u) throws a TypeError when u has no scheme
UrlParses(u) == Len(u) >= 2 /\ u[1] = Scheme /\ u[2] \notin PathTokens

RECURSIVE HostEnd(_, _)
HostEnd(u, i) ==
  IF i > Len(u) \/ u[i] \in PathTokens THEN i - 1 ELSE HostEnd(u, i + 1)

\* new URL(u).hostname, for a u that parses
Hostname(u) == SubSeq(u, 2, HostEnd(u, 2))

----------------------------------------------------------------------------
(* The page as the detector sees it *)

CAPTCHA_SELECTORS ==
  << "iframe[src*=\"recaptcha\"]", "iframe[src*=\"captcha\"]",
     "iframe[src*=\"hcaptcha\"]", "#captcha", ".g-recaptcha", ".h-captcha",
     "[data-sitekey]" >>

JS_CHALLENGE_INDICATORS ==
  << "Checking your browser", "Please wait", "Just a moment",
     "Verify you are human", "DDoS protection by" >>

TITLE_SELECTORS ==
  << "[data-testid=\"item-name\"]", "h1[class*=\"ItemName\"]", ".item-name", "h1" >>

\* selectors that resolve to an element (with non-empty text) on the page
DomChoices == { {}, {"h1"}, {".g-recaptcha"}, {".g-recaptcha", "h1"} }
\* rendered page text
ContentChoices == { <<"<html>", "</html>">>, <<"<html>", "Just a moment", "</html>">> }

PageStates == [dom : DomChoices, content : ContentChoices, url : FinalUrls]
NoPage == [dom |-> {}, content |-> <<>>, url |-> NullUrl]

\* the pages a visit of a session ends on: item page, page without title,
\* CAPTCHA page, challenge page behind a redirect
SessionPages ==
  { [dom |-> {"h1"}, content |-> <<"<html>", "</html>">>, url |-> ItemUrl],
    [dom |-> {}, content |-> <<"<html>", "</html>">>, url |-> ItemUrl],
    [dom |-> {".g-recaptcha"}, content |-> <<"<html>", "</html>">>, url |-> ItemUrl],
    [dom |-> {}, content |-> <<"<html>", "Just a moment", "</html>">>, url |-> ErrorUrl] }

\* an item page served from another host, with nothing else suspicious
RedirectPage ==
  [dom |-> {"h1"}, content |-> <<"<html>", "</html>">>, url |-> ForeignUrl]

----------------------------------------------------------------------------
(* ban-detector.ts *)

\* the BanSignals value detectBanSignals starts from (lines 44-52)
InitialSignals(elapsed) ==
  [captchaDetected |-> FALSE, httpError |-> NullCode, unexpectedRedirect |-> FALSE,
   contentMissing |-> FALSE, jsChallenge |-> FALSE, responseTimeMs |-> elapsed,
   blockedUrl |-> NullUrl]

CaptchaChannel(pg) ==
  \E i \in 1..Len(CAPTCHA_SELECTORS) : CAPTCHA_SELECTORS[i] \in pg.dom

JsChallengeChannel(pg) ==
  \E i \in 1..Len(JS_CHALLENGE_INDICATORS) :
     Includes(pg.content, <<JS_CHALLENGE_INDICATORS[i]>>)

BlockPageChannel(currentUrl) ==
  \E i \in 1..Len(BLOCK_PAGE_PATTERNS) : Includes(currentUrl, BLOCK_PAGE_PATTERNS[i])

DomainMismatch(expectedUrl, currentUrl) ==
  LET expectedDomain == Hostname(expectedUrl)
      currentDomain == Hostname(currentUrl)
  IN expectedDomain # currentDomain /\ ~Includes(currentDomain, expectedDomain)

detectBanSignals_MismatchWithoutUrl(pg, elapsed, expectedUrl) ==
  LET s0 == InitialSignals(elapsed)
      s1 == [s0 EXCEPT !.captchaDetected = CaptchaChannel(pg)]
      s2 == [s1 EXCEPT !.jsChallenge = JsChallengeChannel(pg)]
      s3 == IF BlockPageChannel(pg.url)
              THEN [s2 EXCEPT !.unexpectedRedirect = TRUE, !.blockedUrl = pg.url]
              ELSE s2
  IN IF ~UrlParses(expectedUrl) \/ ~UrlParses(pg.url)
       THEN [threw |-> TRUE, signals |-> s0]
       ELSE [threw |-> FALSE,
             signals |-> IF DomainMismatch(expectedUrl, pg.url)
                           THEN [s3 EXCEPT !.unexpectedRedirect = TRUE]
                           ELSE s3]

\* detectBanSignals: [threw |-> TRUE] when new URL(...) raises, else the signals
detectBanSignals(pg, elapsed, expectedUrl) ==
  LET s0 == InitialSignals(elapsed)
      s1 == [s0 EXCEPT !.captchaDetected = CaptchaChannel(pg)]
      s2 == [s1 EXCEPT !.jsChallenge = JsChallengeChannel(pg)]
      s3 == IF BlockPageChannel(pg.url)
              THEN [s2 EXCEPT !.unexpectedRedirect = TRUE, !.blockedUrl = pg.url]
              ELSE s2
  IN IF ~UrlParses(expectedUrl) \/ ~UrlParses(pg.url)
       THEN [threw |-> TRUE, signals |-> s0]
       ELSE [threw |-> FALSE,
             signals |-> IF DomainMismatch(expectedUrl, pg.url)
                           THEN [s3 EXCEPT !.unexpectedRedirect = TRUE, !.blockedUrl = pg.url]
                           ELSE s3]

checkContentPresence(pg, selectors) ==
  \E i \in 1..Len(selectors) : selectors[i] \in pg.dom

isBanned_IgnoresJsChallenge(signals) ==
  \/ signals.captchaDetected
  \/ signals.httpError # NullCode
  \/ signals.unexpectedRedirect

isBanned_CountsMissingContent(signals) ==
  \/ signals.captchaDetected
  \/ signals.httpError # NullCode
  \/ signals.unexpectedRedirect
  \/ signals.jsChallenge
  \/ signals.contentMissing

isBanned_IgnoresRedirect(signals) ==
  \/ signals.captchaDetected
  \/ signals.httpError # NullCode
  \/ signals.jsChallenge

isBanned(signals) ==
  \/ signals.captchaDetected
  \/ signals.httpError # NullCode
  \/ signals.unexpectedRedirect
  \/ signals.jsChallenge

NoReason == [kind |-> "null", code |-> NullCode, url |-> NullUrl]

getBanReason_RedirectBeforeJsChallenge(signals) ==
  IF signals.captchaDetected THEN [NoReason EXCEPT !.kind = "CAPTCHA"]
  ELSE IF signals.httpError # NullCode
    THEN [NoReason EXCEPT !.kind = "HTTP", !.code = signals.httpError]
  ELSE IF signals.unexpectedRedirect
    THEN [NoReason EXCEPT !.kind = "Redirect to", !.url = signals.blockedUrl]
  ELSE IF signals.jsChallenge THEN [NoReason EXCEPT !.kind = "JS Challenge"]
  ELSE NoReason

getBanReason(signals) ==
  IF signals.captchaDetected THEN [NoReason EXCEPT !.kind = "CAPTCHA"]
  ELSE IF signals.httpError # NullCode
    THEN [NoReason EXCEPT !.kind = "HTTP", !.code = signals.httpError]
  ELSE IF signals.jsChallenge THEN [NoReason EXCEPT !.kind = "JS Challenge"]
  ELSE IF signals.unexpectedRedirect
    THEN [NoReason EXCEPT !.kind = "Redirect to", !.url = signals.blockedUrl]
  ELSE NoReason

----------------------------------------------------------------------------
(* config.ts: loadConfig, and main's --pattern override *)

\* "" stands for an unset environment variable or an absent flag
Unset == ""
KnownPatterns == {"A", "B", "C"}
PatternInputs == {Unset, "A", "B", "C", "D"}

DefaultMinDelay == 1000
DefaultMaxDelay == 5000

\* loadConfig().humanBehavior: the environment value is cast, never validated
loadConfig(envPattern, minDelay, maxDelay) ==
  [pattern |-> IF envPattern = Unset THEN "B" ELSE envPattern,
   minDelay |-> minDelay, maxDelay |-> maxDelay]

\* main: --pattern replaces the loaded pattern, again by a cast
PatternOverride(options, argPattern) ==
  IF argPattern = Unset THEN options ELSE [options EXCEPT !.pattern = argPattern]

\* main's flags: --no-stealth given or not, --pattern value or absent
NoArgs == [noStealth |-> FALSE, pattern |-> Unset]

----------------------------------------------------------------------------
(* human-behavior.ts: the timed actions a call performs, in order.           *)
(* Math.random() samples are hundredths (0..99); the clamped fraction of     *)
(* randomDelay is in hundredths (0..100).                                    *)

Samples == {0, 50, 99}
Coins == {50, 99}
Clamped == {0, 50, 100}

\* page.viewportSize(): null is the viewport without extent
NoViewport == [width |-> 0, height |-> 0]
DefaultViewport == [width |-> 1920, height |-> 1080]

Wait(ms) == [kind |-> "wait", arg |-> ms]
Wheel(dy) == [kind |-> "scroll", arg |-> dy]
MouseMove(i) == [kind |-> "move", arg |-> i]

\* Math.floor(u * n)
FloorScaled(u, n) == (u * n) \div 100

RECURSIVE Repeat(_, _)
Repeat(s, n) == IF n <= 0 THEN <<>> ELSE s \o Repeat(s, n - 1)

\* randomDelay: min + clamped * (max - min), Math.round
randomDelay(min, max, c) ==
  <<Wait((min * 100 + c * (max - min) + 50) \div 100)>>

\* humanScroll: 2..4 wheel+delay pairs, then sometimes a scroll back
humanScroll(d) ==
  LET scrollCount == FloorScaled(d.count, 3) + 2
      scrollAmount == FloorScaled(d.mag, 300) + 100
      scrollBack == 0 - (FloorScaled(d.mag, 100) + 50)
  IN Repeat(<<Wheel(scrollAmount)>> \o randomDelay(300, 800, d.c), scrollCount)
       \o (IF d.back > 70
             THEN <<Wheel(scrollBack)>> \o randomDelay(200, 500, d.c)
             ELSE <<>>)

RECURSIVE MovePoints(_, _, _)
MovePoints(i, steps, pause) ==
  IF i > steps THEN <<>>
  ELSE <<MouseMove(i), Wait(pause)>> \o MovePoints(i + 1, steps, pause)

humanMouseMove_UpTo39Steps(vp, d) ==
  IF vp = NoViewport THEN <<>>
  ELSE MovePoints(0, FloorScaled(d.steps, 30) + 10, FloorScaled(d.mag, 30) + 10)

\* humanMouseMove: nothing without a viewport, else steps+1 points
humanMouseMove(vp, d) ==
  IF vp = NoViewport THEN <<>>
  ELSE MovePoints(0, FloorScaled(d.steps, 20) + 10, FloorScaled(d.mag, 30) + 10)

applyHumanBehavior_MechanicalAlsoScrolls(options, vp, d) ==
  IF options.pattern = "A" THEN <<Wait(2000)>> \o humanScroll(d)
  ELSE <<>>

\* applyHumanBehavior: the switch on options.pattern has no default case
applyHumanBehavior(options, vp, d) ==
  IF options.pattern = "A" THEN <<Wait(2000)>>
  ELSE IF options.pattern = "B"
    THEN randomDelay(options.minDelay, options.maxDelay, d.c)
           \o humanScroll(d)
           \o randomDelay(500, 1500, d.c)
  ELSE IF options.pattern = "C"
    THEN randomDelay(options.minDelay, options.maxDelay, d.c)
           \o (IF vp # NoViewport THEN humanMouseMove(vp, d) ELSE <<>>)
           \o humanScroll(d)
           \o randomDelay(1000, 3000, d.c)
           \o (IF d.hover > 50 /\ d.links > 0 /\ d.box
                 THEN humanMouseMove(vp, d) \o randomDelay(200, 500, d.c)
                 ELSE <<>>)
  ELSE <<>>

----------------------------------------------------------------------------
(* State *)

VARIABLES
  \* BaseScraper fields (non-null = TRUE)
  browser, context, page, requestCount, lastRequestTime,
  \* config.humanBehavior.enabled of the session
  behaviorEnabled,
  \* config.humanBehavior (pattern, minDelay, maxDelay), config.logging.enabled,
  \* page.viewportSize(), and the request records handed to logRequest
  behaviorOptions, loggingEnabled, viewport, requestLogs,
  \* Date.now()
  now,
  \* one getHttpError closure state (lastHttpError) per response listener
  \* registered on the current page, in order of registration
  monitors,
  \* the scrape/navigate call in progress: position, arguments and locals
  pc, url, startTime, intervalSinceLastMs, responses, pageState,
  \* observer: the await of navigate's try block that rejected ("none" if none)
  raisedAt,
  \* observer: the first blocking status seen since the call's monitor was
  \* installed
  firstBlocking,
  \* applyHumanBehavior: position, the timed actions still to run, and the
  \* actions run so far
  hpc, plan, acted,
  \* what navigate and scrape returned
  navResult, scrapeResult,
  \* observers of the session: initialize() calls, whether close() was called
  \* on an open page,
  \* navigate calls that passed the page guard, requestCount at the last such
  \* call, whether the last navigate call was rejected
  inits, everClosed, navCalls, rcAtCall, rejected,
  \* batchScrape: arguments, loop index, the results Map, position, and
  \* observers: scrape calls started and returned, interval waits done, index
  \* of the visit that broke the loop and of the first visit whose result
  \* reports a CAPTCHA (0 = none)
  urls, bi, results, bpc, started, finished, waits, stoppedAt, captchaAt,
  \* runRateLimitTest: position, index of the current interval, requests made
  \* in the round, the banned flag, the interval reported as safe (0 = none),
  \* and observers: rounds started, visits made per round
  rpc, rround, ri, banned, recommended, roundsStarted, roundVisits,
  \* direct calls of the exported detector and classifier: inputs and outputs
  detIn, detOut, clsIn, clsOut,
  \* the run of the program: position of main, the parsed flags,
  \* config.stealthEnabled, and whether chromium has the stealth plugin
  mpc, args, stealthEnabled, stealthPlugin,
  \* whether this.browser was launched with the stealth plugin
  browserStealth,
  \* direct calls of randomDelay and generateBezierPoints: arguments, result
  delayIn, delayOut, bezIn, bezOut

configVars == <<behaviorEnabled, behaviorOptions, loggingEnabled>>
sessionVars == <<browser, context, page, requestCount, lastRequestTime,
                 configVars, viewport, browserStealth, requestLogs, now, monitors, inits, everClosed>>
planVars == <<plan, acted>>
visitVars == <<pc, url, startTime, intervalSinceLastMs, responses, pageState, raisedAt,
               firstBlocking, hpc, planVars,
               navResult, scrapeResult, navCalls, rcAtCall, rejected>>
rateVars == <<rpc, rround, ri, banned, recommended, roundsStarted, roundVisits>>
batchVars == <<urls, bi, results, bpc, started, finished, waits, stoppedAt, captchaAt>>
pureVars == <<detIn, detOut, clsIn, clsOut>>
runVars == <<mpc, args, stealthEnabled, stealthPlugin>>
mathVars == <<delayIn, delayOut, bezIn, bezOut>>
vars == <<sessionVars, visitVars, batchVars, rateVars, pureVars, runVars, mathVars>>

NoError == [kind |-> "none", reason |-> NoReason]
NoResult ==
  [returned |-> FALSE, success |-> FALSE, hasData |-> FALSE,
   banSignals |-> InitialSignals(0), error |-> NoError]

\* ScrapeResult values
Result(success, hasData, banSignals, error) ==
  [returned |-> TRUE, success |-> success, hasData |-> hasData,
   banSignals |-> banSignals, error |-> error]

\* the options a run can start its sessions with; pattern C is exercised by
\* direct calls of applyHumanBehavior
SessionPatternInputs == PatternInputs \ {"C"}
SessionOptions ==
  {PatternOverride(loadConfig(e, DefaultMinDelay, DefaultMaxDelay), a) :
     e \in SessionPatternInputs, a \in SessionPatternInputs}

SessionInit ==
  /\ browser = FALSE /\ context = FALSE /\ page = FALSE
  /\ requestCount = 0 /\ lastRequestTime = 0
  /\ behaviorEnabled \in BOOLEAN
  /\ behaviorOptions \in SessionOptions
  /\ loggingEnabled \in BOOLEAN
  /\ viewport = NoViewport /\ browserStealth = FALSE
  /\ requestLogs = 0
  /\ now = 1
  /\ monitors = <<>>
  /\ inits = 0 /\ everClosed = FALSE

VisitInit ==
  /\ pc = "none" /\ url = NullUrl /\ startTime = 0
  /\ intervalSinceLastMs = Undefined /\ responses = 0 /\ pageState = NoPage
  /\ raisedAt = "none" /\ firstBlocking = NullCode
  /\ hpc = "idle" /\ plan = <<>> /\ acted = <<>>
  /\ navResult = NoResult /\ scrapeResult = NoResult
  /\ navCalls = 0 /\ rcAtCall = 0 /\ rejected = FALSE

BatchIdle ==
  /\ urls = <<>> /\ bi = 0 /\ results = <<>> /\ bpc = "off"
  /\ started = 0 /\ finished = 0 /\ waits = 0 /\ stoppedAt = 0 /\ captchaAt = 0

NoSignalsIn == InitialSignals(0)
NoDetIn == [pg |-> NoPage, expectedUrl |-> NullUrl]
NoDetOut == [called |-> FALSE, threw |-> FALSE, signals |-> InitialSignals(0)]
NoClsOut == [called |-> FALSE, banned |-> FALSE, reason |-> NoReason]

RateIdle ==
  /\ rpc = "off" /\ rround = 0 /\ ri = 0 /\ banned = FALSE
  /\ recommended = 0 /\ roundsStarted = 0 /\ roundVisits = <<>>

\* the program is loaded in its default environment and main is not modelled
RunIdle ==
  /\ mpc = "off" /\ args = NoArgs
  /\ stealthEnabled = TRUE /\ stealthPlugin = TRUE

\* no direct call of randomDelay or humanMouseMove has been made
MathIdle ==
  /\ delayIn = [min |-> 0, max |-> 0, u1 |-> 0, u2 |-> 0]
  /\ delayOut = Undefined
  /\ bezIn = [startX |-> 0, startY |-> 0, endX |-> 0, endY |-> 0, steps |-> 0]
  /\ bezOut = <<>>

PureIdle ==
  /\ detIn = NoDetIn /\ detOut = NoDetOut
  /\ clsIn = NoSignalsIn /\ clsOut = NoClsOut

----------------------------------------------------------------------------
(* BaseScraper (scraper.ts) *)

\* initialize(): launch, newContext, newPage; each await may reject
Initialize(outcome) ==
  /\ pc = "none"
  /\ inits < MaxInits
  /\ inits' = inits + 1
  /\ browser' = IF outcome = "launchFails" THEN browser ELSE TRUE
  /\ context' = IF outcome \in {"launchFails", "contextFails"} THEN context ELSE TRUE
  /\ page' = IF outcome = "ok" THEN TRUE ELSE page
  /\ monitors' = IF outcome = "ok" THEN <<>> ELSE monitors
  /\ viewport' = IF outcome = "ok" THEN DefaultViewport ELSE viewport
  /\ browserStealth' = IF outcome = "launchFails" THEN browserStealth ELSE stealthPlugin
  /\ UNCHANGED <<requestCount, lastRequestTime, configVars, requestLogs, now, everClosed>>

Close_ResetsCount ==
  /\ page' = FALSE /\ context' = FALSE /\ browser' = FALSE
  /\ monitors' = <<>>
  /\ everClosed' = (everClosed \/ page)
  /\ viewport' = NoViewport /\ browserStealth' = FALSE
  /\ requestCount' = 0
  /\ UNCHANGED <<lastRequestTime, configVars, requestLogs, now, inits>>

\* close()
Close ==
  /\ page' = FALSE /\ context' = FALSE /\ browser' = FALSE
  /\ monitors' = <<>>
  /\ everClosed' = (everClosed \/ page)
  /\ viewport' = NoViewport /\ browserStealth' = FALSE
  /\ UNCHANGED <<requestCount, lastRequestTime, configVars, requestLogs, now, inits>>

\* navigate(), lines 80-82: the page guard throws
NavigateRejected(u) ==
  /\ pc = "none"
  /\ ~page
  /\ rejected' = TRUE
  /\ UNCHANGED <<pc, url, startTime, intervalSinceLastMs, responses, pageState,
                 raisedAt, firstBlocking, hpc, planVars,
                 navResult, scrapeResult, navCalls, rcAtCall>>
  /\ UNCHANGED sessionVars

setupResponseMonitor_SharedVariable(ms) ==
  Append(ms, IF ms = <<>> THEN NullCode ELSE ms[Len(ms)])

\* setupResponseMonitor: a new closure variable lastHttpError = null and one
\* more listener on the page
setupResponseMonitor(ms) == Append(ms, NullCode)

\* navigate(), lines 84-91: locals, response monitor, goto started
NavigateBegin(u) ==
  /\ pc = "none"
  /\ page
  /\ pc' = "goto"
  /\ url' = u
  /\ startTime' = now
  /\ intervalSinceLastMs' =
       IF lastRequestTime > 0 THEN now - lastRequestTime ELSE Undefined
  /\ monitors' = setupResponseMonitor(monitors)
  /\ responses' = 0
  /\ pageState' = NoPage
  /\ raisedAt' = "none" /\ firstBlocking' = NullCode
  /\ hpc' = "idle" /\ plan' = <<>> /\ acted' = <<>>
  /\ navResult' = NoResult /\ scrapeResult' = NoResult
  /\ navCalls' = navCalls + 1
  /\ rcAtCall' = requestCount
  /\ rejected' = FALSE
  /\ UNCHANGED <<browser, context, page, requestCount, lastRequestTime,
                 configVars, viewport, browserStealth, requestLogs, now, inits, everClosed>>

\* setupResponseMonitor's listener: every registered listener sees the response
ResponseEvent(status) ==
  /\ pc \in {"goto", "behavior", "detect"}
  /\ responses < MaxResponses
  /\ responses' = responses + 1
  /\ monitors' = [i \in DOMAIN monitors |->
                    IF status \in BlockingStatus THEN status ELSE monitors[i]]
  /\ firstBlocking' = IF firstBlocking = NullCode /\ status \in BlockingStatus
                        THEN status ELSE firstBlocking
  /\ UNCHANGED <<pc, url, startTime, intervalSinceLastMs, pageState, raisedAt,
                 hpc, planVars,
                 navResult, scrapeResult, navCalls, rcAtCall, rejected>>
  /\ UNCHANGED <<batchVars, rateVars, pureVars, runVars, mathVars>>
  /\ UNCHANGED <<browser, context, page, requestCount, lastRequestTime,
                 configVars, viewport, browserStealth, requestLogs, now, inits, everClosed>>

\* a response that arrives while no navigate is reading a monitor: after the
\* monitor of the last visit was read, or between two visits
LateResponse(status) ==
  /\ pc \in {"none", "navret", "done"}
  /\ page
  /\ monitors # <<>>
  /\ responses < MaxResponses
  /\ responses' = responses + 1
  /\ monitors' = [i \in DOMAIN monitors |->
                    IF status \in BlockingStatus THEN status ELSE monitors[i]]
  /\ UNCHANGED <<pc, url, startTime, intervalSinceLastMs, pageState, raisedAt,
                 firstBlocking, hpc, planVars,
                 navResult, scrapeResult, navCalls, rcAtCall, rejected>>
  /\ UNCHANGED <<batchVars, rateVars, pureVars, runVars, mathVars>>
  /\ UNCHANGED <<browser, context, page, requestCount, lastRequestTime,
                 configVars, viewport, browserStealth, requestLogs, now, inits, everClosed>>

\* navigate(), lines 150-168: the catch block
NavigateCatch_Rethrows(t) ==
  /\ pc' = "threw"
  /\ navResult' = NoResult
  /\ UNCHANGED <<requestCount, lastRequestTime, requestLogs>>

NavigateCatch(t) ==
  /\ pc' = "navret"
  /\ navResult' = Result(FALSE, FALSE,
                         [InitialSignals(t - startTime) EXCEPT !.contentMissing = TRUE],
                         [kind |-> "navigation", reason |-> NoReason])
  /\ UNCHANGED <<requestCount, lastRequestTime, requestLogs>>

visitFrame ==
  /\ UNCHANGED <<url, startTime, intervalSinceLastMs, responses, firstBlocking,
                 scrapeResult, navCalls, rcAtCall, rejected>>
  /\ UNCHANGED <<batchVars, rateVars, pureVars, runVars, mathVars>>
sessionFrame ==
  UNCHANGED <<browser, context, page, configVars, viewport, browserStealth, monitors,
              inits, everClosed>>

\* page.goto resolved: the page holds some post-navigation state
GotoOk(pg) ==
  /\ pc = "goto"
  /\ UrlParses(url)
  /\ UNCHANGED raisedAt
  /\ pageState' = pg
  /\ now' = now + 1
  /\ pc' = IF behaviorEnabled THEN "behavior" ELSE "detect"
  /\ UNCHANGED <<navResult, requestCount, lastRequestTime, requestLogs>>
  /\ UNCHANGED <<hpc, planVars>>
  /\ visitFrame /\ sessionFrame

\* page.goto rejected (timeout, connection error, invalid URL)
GotoRaise ==
  /\ pc = "goto"
  /\ raisedAt' = "goto"
  /\ now' = now + 1
  /\ NavigateCatch(now + 1)
  /\ UNCHANGED <<pageState, hpc, planVars>>
  /\ visitFrame /\ sessionFrame

\* the random draws of one applyHumanBehavior call made by navigate
SessionDraws ==
  [c : {50}, count : {0}, back : {50}, steps : {0}, hover : {50},
   mag : {50}, links : {1}, box : {TRUE}]

\* one timed action of the running call completes
PlanStep ==
  /\ hpc = "acting"
  /\ plan # <<>>
  /\ acted' = Append(acted, Head(plan))
  /\ plan' = Tail(plan)
  /\ UNCHANGED hpc

\* navigate(), lines 94-96: applyHumanBehavior is called with the session's
\* options and page
BehaviorStart(d) ==
  /\ pc = "behavior"
  /\ hpc = "idle"
  /\ hpc' = "acting"
  /\ plan' = applyHumanBehavior(behaviorOptions, viewport, d)
  /\ acted' = <<>>
  /\ UNCHANGED <<pc, raisedAt, now, pageState, navResult, requestCount,
                 lastRequestTime, requestLogs>>
  /\ visitFrame /\ sessionFrame

\* an awaited action of the call resolved
BehaviorStep ==
  /\ pc = "behavior"
  /\ PlanStep
  /\ UNCHANGED <<pc, raisedAt, now, pageState, navResult, requestCount,
                 lastRequestTime, requestLogs>>
  /\ visitFrame /\ sessionFrame

BehaviorDone_NotAwaited ==
  /\ pc = "behavior"
  /\ hpc = "acting"
  /\ UNCHANGED raisedAt
  /\ pc' = "detect"
  /\ hpc' = "idle"
  /\ UNCHANGED <<now, pageState, navResult, requestCount, lastRequestTime, requestLogs>>
  /\ UNCHANGED planVars
  /\ visitFrame /\ sessionFrame

\* applyHumanBehavior resolved: no action of the call is left
BehaviorDone ==
  /\ pc = "behavior"
  /\ hpc = "acting"
  /\ plan = <<>>
  /\ UNCHANGED raisedAt
  /\ pc' = "detect"
  /\ hpc' = "idle"
  /\ UNCHANGED <<now, pageState, navResult, requestCount, lastRequestTime, requestLogs>>
  /\ UNCHANGED planVars
  /\ visitFrame /\ sessionFrame

\* applyHumanBehavior rejected: an awaited page operation failed
BehaviorRaise ==
  /\ pc = "behavior"
  /\ hpc = "acting"
  /\ plan # <<>>
  /\ raisedAt' = "behavior"
  /\ hpc' = "idle"
  /\ NavigateCatch(now)
  /\ UNCHANGED <<now, pageState, planVars>>
  /\ visitFrame /\ sessionFrame

DetectStep_CountsOnlyAccepted ==
  /\ pc = "detect"
  /\ UNCHANGED raisedAt
  /\ LET d == detectBanSignals(pageState, now - startTime, url)
         banSignals == [d.signals EXCEPT !.httpError = monitors[Len(monitors)]]
     IN IF d.threw
          THEN NavigateCatch(now)
          ELSE /\ requestCount' = IF isBanned(banSignals) THEN requestCount
                                 ELSE requestCount + 1
               /\ lastRequestTime' = now
               /\ requestLogs' = IF loggingEnabled THEN requestLogs + 1 ELSE requestLogs
               /\ pc' = "navret"
               /\ navResult' =
                    IF isBanned(banSignals)
                      THEN Result(FALSE, FALSE, banSignals,
                                  [kind |-> "BAN detected", reason |-> getBanReason(banSignals)])
                      ELSE Result(TRUE, FALSE, banSignals, NoError)
  /\ UNCHANGED <<now, pageState, hpc, planVars>>
  /\ visitFrame /\ sessionFrame

\* navigate(), lines 98-149: detection, counters, verdict
DetectStep ==
  /\ pc = "detect"
  /\ UNCHANGED raisedAt
  /\ LET d == detectBanSignals(pageState, now - startTime, url)
         banSignals == [d.signals EXCEPT !.httpError = monitors[Len(monitors)]]
     IN IF d.threw
          THEN NavigateCatch(now)
          ELSE /\ requestCount' = requestCount + 1
               /\ lastRequestTime' = now
               /\ requestLogs' = IF loggingEnabled THEN requestLogs + 1 ELSE requestLogs
               /\ pc' = "navret"
               /\ navResult' =
                    IF isBanned(banSignals)
                      THEN Result(FALSE, FALSE, banSignals,
                                  [kind |-> "BAN detected", reason |-> getBanReason(banSignals)])
                      ELSE Result(TRUE, FALSE, banSignals, NoError)
  /\ UNCHANGED <<now, pageState, hpc, planVars>>
  /\ visitFrame /\ sessionFrame

\* a DOM query of the detector rejected (page crashed or closed)
DetectRaise ==
  /\ pc = "detect"
  /\ raisedAt' = "detect"
  /\ NavigateCatch(now)
  /\ UNCHANGED <<now, pageState, hpc, planVars>>
  /\ visitFrame /\ sessionFrame

----------------------------------------------------------------------------
(* MercariScraper.scrape (mercari-scraper.ts), after navigate returned *)

scrapeFrame ==
  /\ UNCHANGED <<url, startTime, intervalSinceLastMs, responses, pageState, raisedAt,
                 firstBlocking, hpc, planVars, navResult, navCalls, rcAtCall, rejected>>
  /\ UNCHANGED sessionVars
  /\ UNCHANGED <<batchVars, rateVars, pureVars, runVars, mathVars>>

\* lines 67-73: navigation not successful, its signals are handed on
ScrapeNavFailed ==
  /\ pc = "navret"
  /\ ~navResult.success
  /\ scrapeResult' = Result(FALSE, FALSE, navResult.banSignals, navResult.error)
  /\ pc' = "done"
  /\ scrapeFrame

ScrapeExtract_SkipsContentCheck ==
  /\ pc = "navret"
  /\ navResult.success
  /\ scrapeResult' = Result(TRUE, TRUE, navResult.banSignals, NoError)
  /\ pc' = "done"
  /\ scrapeFrame

\* lines 75-102: extraction and the content check
ScrapeExtract ==
  /\ pc = "navret"
  /\ navResult.success
  /\ LET contentPresent == checkContentPresence(pageState, TITLE_SELECTORS)
         banSignals == [navResult.banSignals EXCEPT !.contentMissing = ~contentPresent]
     IN scrapeResult' =
          IF ~contentPresent
            THEN Result(FALSE, TRUE, banSignals, [kind |-> "content", reason |-> NoReason])
            ELSE Result(TRUE, TRUE, banSignals, NoError)
  /\ pc' = "done"
  /\ scrapeFrame

\* lines 103-109: extraction raised
ScrapeExtractRaise ==
  /\ pc = "navret"
  /\ navResult.success
  /\ scrapeResult' = Result(FALSE, FALSE, navResult.banSignals,
                            [kind |-> "extract", reason |-> NoReason])
  /\ pc' = "done"
  /\ scrapeFrame

----------------------------------------------------------------------------
(* A caller using one session object: initialize, scrape, close in any order, *)
(* one call at a time                                                         *)

InitOutcomes == {"ok", "launchFails", "contextFails", "pageFails"}

callerFrame == UNCHANGED <<batchVars, rateVars, pureVars, runVars, mathVars>>

CallInitialize(outcome) ==
  /\ Initialize(outcome)
  /\ UNCHANGED visitVars
  /\ callerFrame

CallClose ==
  /\ pc = "none"
  /\ Close
  /\ UNCHANGED visitVars
  /\ callerFrame

CallScrapeRejected(u) ==
  /\ NavigateRejected(u)
  /\ callerFrame

CallScrape(u) ==
  /\ navCalls < MaxVisits
  /\ NavigateBegin(u)
  /\ callerFrame

\* scrape's promise resolves to the caller; the call's locals are gone
ScrapeReturn ==
  /\ pc = "done"
  /\ pc' = "none"
  /\ url' = NullUrl /\ startTime' = 0 /\ intervalSinceLastMs' = Undefined
  /\ responses' = 0 /\ pageState' = NoPage /\ raisedAt' = "none"
  /\ firstBlocking' = NullCode /\ hpc' = "idle" /\ plan' = <<>> /\ acted' = <<>>
  /\ navResult' = NoResult /\ scrapeResult' = NoResult
  /\ UNCHANGED <<navCalls, rcAtCall, rejected>>
  /\ UNCHANGED sessionVars
  /\ callerFrame

VisitStep ==
  \/ \E status \in Statuses : ResponseEvent(status)
  \/ \E pg \in SessionPages \cup {RedirectPage} : GotoOk(pg)
  \/ GotoRaise
  \/ \E d \in SessionDraws : BehaviorStart(d)
  \/ BehaviorStep
  \/ BehaviorDone
  \/ BehaviorRaise
  \/ DetectStep
  \/ DetectRaise
  \/ ScrapeNavFailed
  \/ ScrapeExtract
  \/ ScrapeExtractRaise

Init == SessionInit /\ VisitInit /\ BatchIdle /\ RateIdle /\ PureIdle /\ RunIdle /\ MathIdle

Next ==
  \/ \E outcome \in InitOutcomes : CallInitialize(outcome)
  \/ CallClose
  \/ \E u \in CallerUrls : CallScrapeRejected(u)
  \/ \E u \in CallerUrls : CallScrape(u)
  \/ VisitStep
  \/ \E status \in Statuses : LateResponse(status)
  \/ ScrapeReturn

Spec == Init /\ [][Next]_vars

----------------------------------------------------------------------------
(* Direct calls of the exported detector functions *)

SignalValues ==
  [captchaDetected : BOOLEAN, httpError : {NullCode, 500} \cup BlockingStatus,
   unexpectedRedirect : BOOLEAN, contentMissing : BOOLEAN, jsChallenge : BOOLEAN,
   responseTimeMs : {0}, blockedUrl : {NullUrl, ErrorUrl}]

pureFrame == UNCHANGED <<sessionVars, visitVars, batchVars, rateVars, runVars, mathVars>>

DetectCall(pg, expectedUrl) ==
  /\ detIn' = [pg |-> pg, expectedUrl |-> expectedUrl]
  /\ LET d == detectBanSignals(pg, 0, expectedUrl)
     IN detOut' = [called |-> TRUE, threw |-> d.threw, signals |-> d.signals]
  /\ clsIn' = NoSignalsIn /\ clsOut' = NoClsOut
  /\ pureFrame

ClassifyCall(signals) ==
  /\ clsIn' = signals
  /\ clsOut' = [called |-> TRUE, banned |-> isBanned(signals),
                reason |-> getBanReason(signals)]
  /\ detIn' = NoDetIn /\ detOut' = NoDetOut
  /\ pureFrame

NextPure ==
  \/ \E pg \in PageStates, expectedUrl \in CallerUrls : DetectCall(pg, expectedUrl)
  \/ \E signals \in SignalValues : ClassifyCall(signals)

SpecPure == Init /\ [][NextPure]_vars

----------------------------------------------------------------------------
(* batchScrape (mercari-scraper.ts) *)

\* intervalMs default
DefaultIntervalMs == 5000

BatchTargets == {ItemUrl, Item2Url}
BatchPages == SessionPages
BatchStatuses == {200, 403}

RECURSIVE SeqsUpTo(_, _)
SeqsUpTo(S, n) ==
  IF n = 0 THEN { <<>> }
  ELSE LET shorter == SeqsUpTo(S, n - 1)
       IN shorter \cup { Append(q, x) : q \in shorter, x \in S }

\* Map: entries <<key, value>> in insertion order
MapHas(m, k) == \E j \in 1..Len(m) : m[j][1] = k
MapSet(m, k, v) ==
  IF MapHas(m, k)
    THEN [j \in 1..Len(m) |-> IF m[j][1] = k THEN <<k, v>> ELSE m[j]]
    ELSE Append(m, <<k, v>>)
MapKeys(m) == { m[j][1] : j \in 1..Len(m) }

BatchInit ==
  /\ urls \in SeqsUpTo(BatchTargets, MaxUrls)
  /\ bi = 0 /\ results = <<>> /\ bpc = "start"
  /\ started = 0 /\ finished = 0 /\ waits = 0 /\ stoppedAt = 0 /\ captchaAt = 0

\* lines 220-221: new MercariScraper(), initialize()
BatchStart(outcome) ==
  /\ bpc = "start"
  /\ Initialize(outcome)
  /\ bpc' = IF outcome = "ok" THEN "loop" ELSE "threw"
  /\ UNCHANGED <<urls, bi, results, started, finished, waits, stoppedAt, captchaAt>>
  /\ UNCHANGED <<visitVars, rateVars, pureVars, runVars, mathVars>>

\* lines 226-230: loop test and the call of scrape
BatchScrapeCall ==
  /\ bpc = "loop"
  /\ bi < Len(urls)
  /\ NavigateBegin(urls[bi + 1])
  /\ bpc' = "visiting"
  /\ started' = started + 1
  /\ UNCHANGED <<urls, bi, results, finished, waits, stoppedAt, captchaAt>>
  /\ UNCHANGED <<rateVars, pureVars, runVars, mathVars>>

\* line 226: loop test fails
BatchLoopEnd ==
  /\ bpc = "loop"
  /\ bi >= Len(urls)
  /\ bpc' = "finally"
  /\ UNCHANGED <<urls, bi, results, started, finished, waits, stoppedAt, captchaAt>>
  /\ UNCHANGED <<sessionVars, visitVars, rateVars, pureVars, runVars, mathVars>>

\* line 234: the stop predicate of the batch
StopsBatch_OnSuccess(result) ==
  result.success /\ result.banSignals.captchaDetected

StopsBatch_OnAnyFailure(result) == ~result.success

StopsBatch(result) ==
  ~result.success /\ result.banSignals.captchaDetected

\* line 240: an interval is awaited unless this was the last target
WaitsBeforeNext_AlsoAfterLast(i, n) == i < n

WaitsBeforeNext(i, n) == i < n - 1

\* lines 230-242: the result is stored, then break, wait or next iteration
BatchRecord ==
  /\ bpc = "visiting"
  /\ pc = "done"
  /\ results' = MapSet(results, urls[bi + 1], scrapeResult)
  /\ finished' = finished + 1
  /\ captchaAt' = IF captchaAt = 0 /\ scrapeResult.banSignals.captchaDetected
                    THEN bi + 1 ELSE captchaAt
  /\ IF StopsBatch(scrapeResult)
       THEN /\ bpc' = "finally"
            /\ stoppedAt' = bi + 1
            /\ UNCHANGED bi
       ELSE IF WaitsBeforeNext(bi, Len(urls))
         THEN /\ bpc' = "wait"
              /\ UNCHANGED <<bi, stoppedAt>>
         ELSE /\ bpc' = "loop"
              /\ bi' = bi + 1
              /\ UNCHANGED stoppedAt
  /\ pc' = "none"
  /\ url' = NullUrl /\ startTime' = 0 /\ intervalSinceLastMs' = Undefined
  /\ responses' = 0 /\ pageState' = NoPage /\ raisedAt' = "none"
  /\ firstBlocking' = NullCode /\ hpc' = "idle" /\ plan' = <<>> /\ acted' = <<>>
  /\ navResult' = NoResult /\ scrapeResult' = NoResult
  /\ UNCHANGED <<navCalls, rcAtCall, rejected>>
  /\ UNCHANGED <<urls, started, waits>>
  /\ UNCHANGED <<sessionVars, rateVars, pureVars, runVars, mathVars>>

\* line 241: the interval elapses
BatchWait ==
  /\ bpc = "wait"
  /\ now' = now + DefaultIntervalMs
  /\ waits' = waits + 1
  /\ bi' = bi + 1
  /\ bpc' = "loop"
  /\ UNCHANGED <<urls, results, started, finished, stoppedAt, captchaAt>>
  /\ UNCHANGED <<browser, context, page, requestCount, lastRequestTime,
                 configVars, viewport, browserStealth, requestLogs, monitors, inits, everClosed>>
  /\ UNCHANGED <<visitVars, rateVars, pureVars, runVars, mathVars>>

\* lines 244-248: finally close(), then the Map is returned
BatchFinally ==
  /\ bpc = "finally"
  /\ Close
  /\ bpc' = "returned"
  /\ UNCHANGED <<urls, bi, results, started, finished, waits, stoppedAt, captchaAt>>
  /\ UNCHANGED <<visitVars, rateVars, pureVars, runVars, mathVars>>

BatchVisitStep ==
  \/ \E status \in BatchStatuses : ResponseEvent(status)
  \/ \E pg \in BatchPages : GotoOk(pg)
  \/ GotoRaise
  \/ \E d \in SessionDraws : BehaviorStart(d)
  \/ BehaviorStep
  \/ BehaviorDone
  \/ BehaviorRaise
  \/ DetectStep
  \/ DetectRaise
  \/ ScrapeNavFailed
  \/ ScrapeExtract
  \/ ScrapeExtractRaise

\* the batch runs with the options loadConfig gives in an empty environment
InitBatch ==
  /\ SessionInit /\ VisitInit /\ BatchInit /\ RateIdle /\ PureIdle /\ RunIdle /\ MathIdle
  /\ behaviorOptions = loadConfig(Unset, DefaultMinDelay, DefaultMaxDelay)
  /\ loggingEnabled

NextBatch ==
  \/ \E outcome \in InitOutcomes : BatchStart(outcome)
  \/ BatchScrapeCall
  \/ BatchLoopEnd
  \/ BatchVisitStep
  \/ BatchRecord
  \/ BatchWait
  \/ BatchFinally

SpecBatch == InitBatch /\ [][NextBatch]_vars

----------------------------------------------------------------------------
(* Direct calls of applyHumanBehavior(page, options) *)

DelayRanges == { <<1000, 5000>>, <<0, 0>>, <<5000, 1000>> }
Viewports == { NoViewport, DefaultViewport, [width |-> 375, height |-> 667] }
BehaviorDraws ==
  [c : Clamped, count : Samples, back : Coins, steps : Samples, hover : Coins,
   mag : {0, 99}, links : {0, 1}, box : BOOLEAN]

BehaviorInit ==
  /\ browser = FALSE /\ context = FALSE /\ page = FALSE
  /\ requestCount = 0 /\ lastRequestTime = 0
  /\ behaviorEnabled = TRUE
  /\ \E e \in PatternInputs, r \in DelayRanges :
       behaviorOptions = loadConfig(e, r[1], r[2])
  /\ loggingEnabled = TRUE
  /\ viewport \in Viewports /\ browserStealth = FALSE
  /\ requestLogs = 0
  /\ now = 1
  /\ monitors = <<>>
  /\ inits = 0 /\ everClosed = FALSE

behaviorFrame ==
  /\ UNCHANGED <<pc, url, startTime, intervalSinceLastMs, responses, pageState,
                 raisedAt, firstBlocking, navResult, scrapeResult, navCalls,
                 rcAtCall, rejected>>
  /\ UNCHANGED <<sessionVars, batchVars, rateVars, pureVars, runVars, mathVars>>

\* applyHumanBehavior is called
ApplyCall(d) ==
  /\ pc = "none"
  /\ hpc = "idle"
  /\ hpc' = "acting"
  /\ plan' = applyHumanBehavior(behaviorOptions, viewport, d)
  /\ acted' = <<>>
  /\ behaviorFrame

\* an awaited action of the call resolved
ApplyStep ==
  /\ pc = "none"
  /\ PlanStep
  /\ behaviorFrame

\* the call resolves
ApplyReturn ==
  /\ pc = "none"
  /\ hpc = "acting"
  /\ plan = <<>>
  /\ hpc' = "returned"
  /\ UNCHANGED planVars
  /\ behaviorFrame

InitBehavior ==
  BehaviorInit /\ VisitInit /\ BatchIdle /\ RateIdle /\ PureIdle /\ RunIdle /\ MathIdle

NextBehavior ==
  \/ \E d \in BehaviorDraws : ApplyCall(d)
  \/ ApplyStep
  \/ ApplyReturn

SpecBehavior == InitBehavior /\ [][NextBehavior]_vars

\* every awaited page operation of the call settles
SpecBehaviorFair == SpecBehavior /\ WF_vars(NextBehavior)

----------------------------------------------------------------------------
(* runRateLimitTest (index.ts) *)

Intervals == <<60000, 30000, 15000, 10000, 5000, 3000>>
requestsPerInterval == 5
RoundPauseMs == 30000

\* the four ban channels of a BanSignals value
AnyBanChannel(signals) ==
  \/ signals.captchaDetected
  \/ signals.httpError # NullCode
  \/ signals.jsChallenge
  \/ signals.unexpectedRedirect

RateUrl == ItemUrl
RatePages ==
  { [dom |-> {"h1"}, content |-> <<"<html>", "</html>">>, url |-> ItemUrl],
    [dom |-> {".g-recaptcha"}, content |-> <<"<html>", "</html>">>, url |-> ItemUrl] }
RateStatuses == {200, 429}

RateInit ==
  /\ rpc = "round" /\ rround = 0 /\ ri = 0 /\ banned = FALSE
  /\ recommended = 0 /\ roundsStarted = 0 /\ roundVisits = <<>>

rateLocals == <<rround, ri, banned, recommended, roundsStarted, roundVisits>>

\* for (const interval of intervals): new MercariScraper(), banned = false
RateNewScraper ==
  /\ rpc = "round"
  /\ rround < Len(Intervals)
  /\ rround' = rround + 1
  /\ roundsStarted' = roundsStarted + 1
  /\ roundVisits' = Append(roundVisits, [interval |-> Intervals[rround + 1],
                                         visits |-> 0, bans |-> 0])
  /\ banned' = FALSE
  /\ ri' = 0
  /\ rpc' = "init"
  /\ browser' = FALSE /\ context' = FALSE /\ page' = FALSE
  /\ requestCount' = 0 /\ lastRequestTime' = 0 /\ requestLogs' = 0
  /\ viewport' = NoViewport /\ browserStealth' = FALSE /\ monitors' = <<>>
  /\ inits' = 0 /\ everClosed' = FALSE
  /\ UNCHANGED <<configVars, now, recommended>>
  /\ UNCHANGED <<visitVars, batchVars, pureVars, runVars, mathVars>>

\* the intervals are exhausted: "Test Complete"
RateComplete ==
  /\ rpc = "round"
  /\ rround >= Len(Intervals)
  /\ rpc' = "complete"
  /\ UNCHANGED rateLocals
  /\ UNCHANGED <<sessionVars, visitVars, batchVars, pureVars, runVars, mathVars>>

\* await scraper.initialize() inside the try
RateInitialize(outcome) ==
  /\ rpc = "init"
  /\ Initialize(outcome)
  /\ rpc' = IF outcome = "ok" THEN "loop" ELSE "finally"
  /\ UNCHANGED rateLocals
  /\ UNCHANGED <<visitVars, batchVars, pureVars, runVars, mathVars>>

\* the inner loop calls scraper.scrape(url)
RateScrapeCall ==
  /\ rpc = "loop"
  /\ ri < requestsPerInterval
  /\ NavigateBegin(RateUrl)
  /\ rpc' = "visiting"
  /\ roundVisits' = [roundVisits EXCEPT ![rround].visits = @ + 1]
  /\ UNCHANGED <<rround, ri, banned, recommended, roundsStarted>>
  /\ UNCHANGED <<batchVars, pureVars, runVars, mathVars>>

\* the inner loop test fails
RateLoopEnd ==
  /\ rpc = "loop"
  /\ ri >= requestsPerInterval
  /\ rpc' = "finally"
  /\ UNCHANGED rateLocals
  /\ UNCHANGED <<sessionVars, visitVars, batchVars, pureVars, runVars, mathVars>>

\* scrape returned: banned visit breaks, else wait unless it was the last
RateRecord ==
  /\ rpc = "visiting"
  /\ pc = "done"
  /\ roundVisits' = [roundVisits EXCEPT ![rround].bans =
                       IF AnyBanChannel(scrapeResult.banSignals) THEN @ + 1 ELSE @]
  /\ IF isBanned(scrapeResult.banSignals)
       THEN /\ banned' = TRUE
            /\ rpc' = "finally"
            /\ UNCHANGED ri
       ELSE IF ri < requestsPerInterval - 1
         THEN /\ rpc' = "wait"
              /\ UNCHANGED <<ri, banned>>
         ELSE /\ rpc' = "loop"
              /\ ri' = ri + 1
              /\ UNCHANGED banned
  /\ pc' = "none"
  /\ url' = NullUrl /\ startTime' = 0 /\ intervalSinceLastMs' = Undefined
  /\ responses' = 0 /\ pageState' = NoPage /\ raisedAt' = "none"
  /\ firstBlocking' = NullCode /\ hpc' = "idle" /\ plan' = <<>> /\ acted' = <<>>
  /\ navResult' = NoResult /\ scrapeResult' = NoResult
  /\ UNCHANGED <<navCalls, rcAtCall, rejected>>
  /\ UNCHANGED <<rround, recommended, roundsStarted>>
  /\ UNCHANGED <<sessionVars, batchVars, pureVars, runVars, mathVars>>

\* the interval of the round elapses
RateWait ==
  /\ rpc = "wait"
  /\ now' = now + Intervals[rround]
  /\ ri' = ri + 1
  /\ rpc' = "loop"
  /\ UNCHANGED <<rround, banned, recommended, roundsStarted, roundVisits>>
  /\ UNCHANGED <<browser, context, page, requestCount, lastRequestTime,
                 configVars, viewport, browserStealth, requestLogs, monitors, inits, everClosed>>
  /\ UNCHANGED <<visitVars, batchVars, pureVars, runVars, mathVars>>

RateFinally_ContinuesAfterBan ==
  /\ rpc = "finally"
  /\ recommended' = IF banned THEN Intervals[rround] * 2 ELSE recommended
  /\ Close
  /\ rpc' = "pause"
  /\ UNCHANGED <<rround, ri, banned, roundsStarted, roundVisits>>
  /\ UNCHANGED <<visitVars, batchVars, pureVars, runVars, mathVars>>

\* if (banned) report twice the interval and break; finally close()
RateFinally ==
  /\ rpc = "finally"
  /\ recommended' = IF banned THEN Intervals[rround] * 2 ELSE recommended
  /\ Close
  /\ rpc' = IF banned THEN "complete" ELSE "pause"
  /\ UNCHANGED <<rround, ri, banned, roundsStarted, roundVisits>>
  /\ UNCHANGED <<visitVars, batchVars, pureVars, runVars, mathVars>>

\* the pause between two rounds elapses
RatePause ==
  /\ rpc = "pause"
  /\ now' = now + RoundPauseMs
  /\ rpc' = "round"
  /\ UNCHANGED rateLocals
  /\ UNCHANGED <<browser, context, page, requestCount, lastRequestTime,
                 configVars, viewport, browserStealth, requestLogs, monitors, inits, everClosed>>
  /\ UNCHANGED <<visitVars, batchVars, pureVars, runVars, mathVars>>

RateVisitStep ==
  \/ \E status \in RateStatuses : ResponseEvent(status)
  \/ \E pg \in RatePages : GotoOk(pg)
  \/ GotoRaise
  \/ \E d \in SessionDraws : BehaviorStart(d)
  \/ BehaviorStep
  \/ BehaviorDone
  \/ BehaviorRaise
  \/ DetectStep
  \/ DetectRaise
  \/ ScrapeNavFailed
  \/ ScrapeExtract
  \/ ScrapeExtractRaise

\* the test runs with HUMAN_BEHAVIOR_PATTERN=A, behaviour and logging enabled
InitRate ==
  /\ SessionInit /\ VisitInit /\ BatchIdle /\ RateInit /\ PureIdle /\ RunIdle /\ MathIdle
  /\ behaviorOptions = loadConfig("A", DefaultMinDelay, DefaultMaxDelay)
  /\ behaviorEnabled
  /\ loggingEnabled

NextRate ==
  \/ RateNewScraper
  \/ RateComplete
  \/ \E outcome \in InitOutcomes : RateInitialize(outcome)
  \/ RateScrapeCall
  \/ RateLoopEnd
  \/ RateVisitStep
  \/ RateRecord
  \/ RateWait
  \/ RateFinally
  \/ RatePause

SpecRate == InitRate /\ [][NextRate]_vars

\* every await of the test returns: timers fire, page operations settle
SpecRateFair == SpecRate /\ WF_vars(NextRate)

----------------------------------------------------------------------------
(* A run of the program with one URL: module load, main, scrapeSingleUrl *)

RunArgs == [noStealth : BOOLEAN, pattern : SessionPatternInputs]

runFrame == UNCHANGED <<batchVars, rateVars, pureVars, mathVars>>

\* scraper.ts top level, lines 9-12: the plugin is registered when the
\* loaded config enables it
ModuleLoad ==
  /\ mpc = "import"
  /\ stealthPlugin' = (stealthPlugin \/ stealthEnabled)
  /\ mpc' = "main"
  /\ UNCHANGED <<args, stealthEnabled>>
  /\ UNCHANGED <<sessionVars, visitVars>>
  /\ runFrame

\* main, lines 254-272: the flags are applied to the shared config object
MainParse ==
  /\ mpc = "main"
  /\ stealthEnabled' = IF args.noStealth THEN FALSE ELSE stealthEnabled
  /\ behaviorOptions' = PatternOverride(behaviorOptions, args.pattern)
  /\ mpc' = "single"
  /\ UNCHANGED <<args, stealthPlugin>>
  /\ UNCHANGED <<browser, context, page, requestCount, lastRequestTime,
                 behaviorEnabled, loggingEnabled, viewport, browserStealth,
                 requestLogs, now, monitors, inits, everClosed>>
  /\ UNCHANGED visitVars
  /\ runFrame

\* scrapeSingleUrl: new MercariScraper(), initialize() inside the try
SingleInitialize(outcome) ==
  /\ mpc = "single"
  /\ Initialize(outcome)
  /\ mpc' = IF outcome = "ok" THEN "scrape" ELSE "finally"
  /\ UNCHANGED <<args, stealthEnabled, stealthPlugin>>
  /\ UNCHANGED visitVars
  /\ runFrame

\* scraper.scrape(url) is called
SingleScrapeCall ==
  /\ mpc = "scrape"
  /\ NavigateBegin(ItemUrl)
  /\ mpc' = "visiting"
  /\ UNCHANGED <<args, stealthEnabled, stealthPlugin>>
  /\ runFrame

\* scrape returned and the result is printed
SingleReturn ==
  /\ mpc = "visiting"
  /\ pc = "done"
  /\ mpc' = "finally"
  /\ pc' = "none"
  /\ url' = NullUrl /\ startTime' = 0 /\ intervalSinceLastMs' = Undefined
  /\ responses' = 0 /\ pageState' = NoPage /\ raisedAt' = "none"
  /\ firstBlocking' = NullCode /\ hpc' = "idle" /\ plan' = <<>> /\ acted' = <<>>
  /\ navResult' = NoResult /\ scrapeResult' = NoResult
  /\ UNCHANGED <<navCalls, rcAtCall, rejected>>
  /\ UNCHANGED <<args, stealthEnabled, stealthPlugin>>
  /\ UNCHANGED sessionVars
  /\ runFrame

\* finally: scraper.close()
SingleFinally ==
  /\ mpc = "finally"
  /\ Close
  /\ mpc' = "exit"
  /\ UNCHANGED <<args, stealthEnabled, stealthPlugin>>
  /\ UNCHANGED visitVars
  /\ runFrame

RunVisitStep ==
  \/ \E status \in Statuses : ResponseEvent(status)
  \/ \E pg \in SessionPages : GotoOk(pg)
  \/ GotoRaise
  \/ \E d \in SessionDraws : BehaviorStart(d)
  \/ BehaviorStep
  \/ BehaviorDone
  \/ BehaviorRaise
  \/ DetectStep
  \/ DetectRaise
  \/ ScrapeNavFailed
  \/ ScrapeExtract
  \/ ScrapeExtractRaise

\* the configuration has been loaded, the scraper module is about to be
InitRun ==
  /\ SessionInit /\ VisitInit /\ BatchIdle /\ RateIdle /\ PureIdle /\ MathIdle
  /\ mpc = "import"
  /\ args \in RunArgs
  /\ stealthEnabled \in BOOLEAN
  /\ stealthPlugin = FALSE
  /\ \E e \in SessionPatternInputs :
       behaviorOptions = loadConfig(e, DefaultMinDelay, DefaultMaxDelay)

NextRun ==
  \/ ModuleLoad
  \/ MainParse
  \/ \E outcome \in InitOutcomes : SingleInitialize(outcome)
  \/ SingleScrapeCall
  \/ RunVisitStep
  \/ SingleReturn
  \/ SingleFinally

SpecRun == InitRun /\ [][NextRun]_vars

----------------------------------------------------------------------------
(* Direct calls of randomDelay and of humanMouseMove *)
(* Times in milliseconds; samples and the Box-Muller terms in hundredths;  *)
(* coordinates in hundredths of a pixel.                                   *)

\* Math.log(0) is -Infinity, so Math.sqrt(-2 * Math.log(0)) is Infinity
Infinity == 1000000

\* Math.random() for u1: 0, 0.01, 0.5, 0.99; for u2: 0, 0.25, 0.5
BoxMullerSamples == [u1 : {0, 1, 50, 99}, u2 : {0, 25, 50}]

\* normal = Math.sqrt(-2 * Math.log(u1)) * Math.cos(2 * Math.PI * u2)
\* radius to the nearest 0.05; the cosine at u2 = 0.25 is the double 6.1e-17,
\* shown as 0 but positive, and Infinity times a positive double is Infinity
BoxMuller(u1, u2) ==
  LET radius == CASE u1 = 0 -> Infinity
                  [] u1 = 1 -> 305
                  [] u1 = 50 -> 120
                  [] OTHER -> 15
      cosine == CASE u2 = 0 -> 100
                  [] u2 = 25 -> 0
                  [] OTHER -> -100
  IN  IF radius = Infinity
      THEN (IF cosine >= 0 THEN Infinity ELSE -Infinity)
      ELSE (radius * cosine) \div 100

\* normal * 0.2 + 0.5
Normalized(normal) ==
  IF normal \in {Infinity, -Infinity} THEN normal ELSE normal \div 5 + 50

clampUnit_UpperBoundTwo(n) ==
  IF n < 0 THEN 0 ELSE IF n > 200 THEN 200 ELSE n

\* Math.max(0, Math.min(1, normalized))
clampUnit(n) ==
  IF n < 0 THEN 0 ELSE IF n > 100 THEN 100 ELSE n

\* the waited time of randomDelay(page, min, max) for the samples u1, u2
DelayOf(min, max, u1, u2) ==
  randomDelay(min, max, clampUnit(Normalized(BoxMuller(u1, u2))))[1].arg

\* the ranges of the call sites and of the configuration
DelayCallRanges ==
  DelayRanges \cup { <<300, 800>>, <<200, 500>>, <<500, 1500>>,
                     <<1000, 3000>>, <<100, 300>>, <<0, 1>>, <<1000, 1001>> }

RandomDelayCall(r, u1, u2) ==
  /\ delayIn' = [min |-> r[1], max |-> r[2], u1 |-> u1, u2 |-> u2]
  /\ delayOut' = DelayOf(r[1], r[2], u1, u2)
  /\ UNCHANGED <<bezIn, bezOut>>
  /\ UNCHANGED <<sessionVars, visitVars, batchVars, rateVars, pureVars, runVars>>

MoveViewport == [width |-> 375, height |-> 667]
MoveDraws ==
  [sx : Samples, sy : {0, 99}, tx : {50, 99}, ty : {50}, steps : Samples,
   c1x : {0, 99}, c1y : {0, 99}, c2x : {0, 99}, c2y : {0, 99}]

\* Math.round of n / den, den even
MathRound(n, den) == (n + den \div 2) \div den

\* cubicBezier at t = i / steps, times steps cubed
cubicBezier(i, steps, p0, p1, p2, p3) ==
  LET mt == steps - i
  IN  mt * mt * mt * p0 + 3 * mt * mt * i * p1 + 3 * mt * i * i * p2
        + i * i * i * p3

\* generateBezierPoints: the points for i = 0..steps, in that order
generateBezierPoints(startX, startY, endX, endY, steps, d) ==
  LET cp1x == startX + (3 * (endX - startX)) \div 10 + (d.c1x - 50) * 100
      cp1y == startY + (endY - startY) \div 10 + (d.c1y - 50) * 100
      cp2x == startX + (7 * (endX - startX)) \div 10 + (d.c2x - 50) * 100
      cp2y == startY + (9 * (endY - startY)) \div 10 + (d.c2y - 50) * 100
      den == 100 * steps * steps * steps
  IN  [k \in 1..(steps + 1) |->
        [i |-> k - 1,
         x |-> MathRound(cubicBezier(k - 1, steps, startX, cp1x, cp2x, endX), den),
         y |-> MathRound(cubicBezier(k - 1, steps, startY, cp1y, cp2y, endY), den)]]

\* applyHumanBehavior picks the target, humanMouseMove the start and steps
HumanMouseMoveCall(vp, d) ==
  LET targetX == (d.tx * vp.width * 8) \div 10 + vp.width * 10
      targetY == (d.ty * vp.height * 8) \div 10 + vp.height * 10
      startX == (d.sx * vp.width) \div 2
      startY == (d.sy * vp.height) \div 2
      steps == FloorScaled(d.steps, 20) + 10
  IN  /\ bezIn' = [startX |-> startX, startY |-> startY,
                   endX |-> targetX, endY |-> targetY, steps |-> steps]
      /\ bezOut' = generateBezierPoints(startX, startY, targetX, targetY, steps, d)
      /\ UNCHANGED <<delayIn, delayOut>>
      /\ UNCHANGED <<sessionVars, visitVars, batchVars, rateVars, pureVars, runVars>>

InitMath ==
  /\ SessionInit /\ VisitInit /\ BatchIdle /\ RateIdle /\ PureIdle /\ RunIdle
  /\ MathIdle
  /\ behaviorOptions = loadConfig(Unset, DefaultMinDelay, DefaultMaxDelay)
  /\ behaviorEnabled /\ loggingEnabled

NextDelay ==
  \E r \in DelayCallRanges, u \in BoxMullerSamples :
    RandomDelayCall(r, u.u1, u.u2)

NextMove == \E d \in MoveDraws : HumanMouseMoveCall(MoveViewport, d)

SpecDelay == InitMath /\ [][NextDelay]_vars
SpecMove == InitMath /\ [][NextMove]_vars

----------------------------------------------------------------------------
(* Properties *)

C3_CountsEveryVisit ==
  pc \in {"navret", "done"} => requestCount = rcAtCall + 1

\* C4: intervalSinceLastMs is absent on the first visit of a session and
\* present on every later visit, also after a visit that failed.
C4_IntervalAbsentOnlyOnFirstVisit ==
  pc \in {"goto", "behavior", "detect", "navret", "done"} =>
    (intervalSinceLastMs = Undefined <=> navCalls = 1)

\* C5: a visit in which goto, the behaviour simulation or the detection
\* raised is returned, not thrown: navigate returns success=false with
\* contentMissing=true and no ban channel, so it is not banned, and scrape
\* hands the same outcome on.
C5_NavigationFailureIsAnOutcome ==
  raisedAt # "none" =>
    /\ pc \in {"navret", "done"}
    /\ navResult.returned /\ ~navResult.success
    /\ navResult.banSignals.contentMissing
    /\ ~AnyBanChannel(navResult.banSignals)
    /\ ~isBanned(navResult.banSignals)
    /\ pc = "done" =>
         /\ scrapeResult.returned /\ ~scrapeResult.success
         /\ scrapeResult.banSignals = navResult.banSignals
         /\ scrapeResult.error = navResult.error

C5_Witness ==
  /\ raisedAt = "goto"
  /\ pc = "done"
  /\ scrapeResult.returned /\ ~scrapeResult.success
  /\ scrapeResult.banSignals.contentMissing

\* C6: once a visit of batchScrape has returned a result with CAPTCHA
\* detected, no later target is visited and the results hold no outcome of a
\* later target.
C6_NoVisitAfterCaptcha ==
  captchaAt # 0 =>
    /\ started = captchaAt
    /\ pc = "none"
    /\ bpc \in {"finally", "returned"}
    /\ Len(results) <= captchaAt
    /\ \A j \in 1..Len(results) : \E i \in 1..captchaAt : results[j][1] = urls[i]

C6_Witness ==
  /\ bpc = "returned"
  /\ Len(urls) = MaxUrls
  /\ captchaAt = 2
  /\ started = 2

\* C7: batchScrape visits the targets one at a time in list order, each
\* visit after the first only when the previous one has returned and one
\* full interval has been awaited; no interval is awaited after the last
\* visit or after the visit that stops the batch.
C7_SequentialInOrder ==
  /\ started - finished \in {0, 1}
  /\ (started - finished = 1) <=> (bpc = "visiting")
  /\ pc # "none" => bpc = "visiting"
  /\ bpc = "visiting" =>
       /\ started = bi + 1
       /\ pc # "none" => url = urls[started]
       /\ waits = started - 1
  /\ bpc = "wait" => (waits = started - 1 /\ started < Len(urls) /\ stoppedAt = 0)
  /\ bpc \in {"finally", "returned"} =>
       waits = (IF started = 0 THEN 0 ELSE started - 1)

C7_Witness ==
  /\ bpc = "returned"
  /\ started = 3 /\ finished = 3
  /\ waits = 2

\* C8: the collection batchScrape returns holds one outcome per visit
\* performed.
C8_OneOutcomePerVisit ==
  bpc = "returned" => Len(results) = finished

\* C9: navigate is rejected before initialize() and after close(), and once
\* close() has been called no visit is accepted again (calls on a session
\* are made one at a time, so a visit in progress after close() is a visit
\* accepted after close()).
C9_StoppedIsTerminal ==
  /\ (pc # "none" => inits > 0)
  /\ (everClosed => pc = "none")

\* C10: the detector never throws; with a malformed URL the domain channel
\* is not triggered and the CAPTCHA, challenge-text and block-page channels
\* are still reported.
C10_DetectorNeverThrows ==
  detOut.called =>
    /\ ~detOut.threw
    /\ detOut.signals.captchaDetected = CaptchaChannel(detIn.pg)
    /\ detOut.signals.jsChallenge = JsChallengeChannel(detIn.pg)
    /\ BlockPageChannel(detIn.pg.url) => detOut.signals.unexpectedRedirect

\* C11: when several blocking status codes are observed during one visit, the
\* httpError reported for the visit is the first of them in order of
\* observation.
C11_ReportsFirstBlockingCode ==
  (pc \in {"navret", "done"} /\ raisedAt = "none") =>
    navResult.banSignals.httpError = firstBlocking

\* C12: getBanReason reports the reason of the first triggered channel in the
\* order CAPTCHA, HTTP error, JS challenge, redirect, for every BanSignals
\* value, also when several channels are triggered.
C12_ReasonFollowsPriority ==
  clsOut.called =>
    /\ clsIn.captchaDetected => clsOut.reason.kind = "CAPTCHA"
    /\ (~clsIn.captchaDetected /\ clsIn.httpError # NullCode) =>
         (clsOut.reason.kind = "HTTP" /\ clsOut.reason.code = clsIn.httpError)
    /\ (~clsIn.captchaDetected /\ clsIn.httpError = NullCode /\ clsIn.jsChallenge) =>
         clsOut.reason.kind = "JS Challenge"
    /\ (~clsIn.captchaDetected /\ clsIn.httpError = NullCode /\ ~clsIn.jsChallenge
          /\ clsIn.unexpectedRedirect) =>
         (clsOut.reason.kind = "Redirect to" /\ clsOut.reason.url = clsIn.blockedUrl)

C12_Witness ==
  /\ clsOut.called
  /\ ~clsIn.captchaDetected /\ clsIn.httpError = NullCode
  /\ clsIn.jsChallenge /\ clsIn.unexpectedRedirect
  /\ clsOut.reason.kind = "JS Challenge"

\* C14: no visit ever runs on a session whose behaviour pattern is not one of
\* A, B, C: such a configuration is rejected at session setup.
C14_NoVisitWithUnknownPattern ==
  pc # "none" => behaviorOptions.pattern \in KnownPatterns

\* C15: within one visit goto completes first, then every timed action of the
\* behaviour call completes, then the detector starts, and requestCount and
\* lastRequestTime are updated only after detection; the detector never runs
\* while a behaviour action is pending.
C15_GotoThenBehaviorThenDetection ==
  /\ pc = "goto" =>
       (pageState = NoPage /\ hpc = "idle" /\ plan = <<>> /\ acted = <<>>)
  /\ pc = "behavior" => (behaviorEnabled /\ pageState # NoPage)
  /\ hpc = "acting" => pc = "behavior"
  /\ pc = "detect" =>
       /\ pageState # NoPage
       /\ hpc = "idle" /\ plan = <<>>
       /\ (behaviorEnabled /\ behaviorOptions.pattern \in KnownPatterns) => acted # <<>>
       /\ ~behaviorEnabled => acted = <<>>
  /\ pc \in {"goto", "behavior", "detect"} =>
       (requestCount = rcAtCall /\ lastRequestTime <= startTime)
  /\ (pc \in {"navret", "done"} /\ raisedAt = "none") =>
       (plan = <<>> /\ requestCount = rcAtCall + 1 /\ lastRequestTime > startTime)

C15_Witness ==
  /\ pc = "detect"
  /\ behaviorEnabled
  /\ Len(acted) > 1
  /\ plan = <<>>
  /\ requestCount = rcAtCall

\* C16: every execution of batchScrape that launched a browser ends with page,
\* context and browser released, whether it returns or throws.
C16_BrowserReleasedOnEveryPath ==
  bpc \in {"returned", "threw"} => (~page /\ ~context /\ ~browser)

\* C17: the rate-limit test runs one round per interval of the descending
\* list 60000, 30000, 15000, 10000, 5000, 3000, each round on a fresh session
\* with at most 5 visits; from the first banned visit on it performs no
\* further visit and reports twice the interval of that round; if no visit is
\* banned every round runs; the test terminates.
C17_RoundsAreOrdered ==
  /\ roundsStarted = rround /\ Len(roundVisits) = rround /\ rround <= Len(Intervals)
  /\ \A r \in 1..Len(roundVisits) :
       /\ roundVisits[r].interval = Intervals[r]
       /\ r > 1 => roundVisits[r].interval < roundVisits[r - 1].interval
       /\ roundVisits[r].visits <= requestsPerInterval
       /\ roundVisits[r].bans > 0 => (r = rround /\ banned)
       /\ roundVisits[r].bans <= 1
  /\ rpc = "init" =>
       (~browser /\ ~context /\ ~page /\ requestCount = 0 /\ lastRequestTime = 0)
  /\ (rpc = "visiting" /\ roundVisits[rround].visits = 1 /\ pc # "none") =>
       (rcAtCall = 0 /\ intervalSinceLastMs = Undefined)

C17_StopsAtFirstBan ==
  /\ banned =>
       /\ roundVisits[rround].bans = 1
       /\ pc = "none"
       /\ rpc \in {"finally", "complete"}
       /\ roundVisits[rround].visits = ri + 1
  /\ rpc = "complete" =>
       IF banned
         THEN recommended = 2 * roundVisits[rround].interval
         ELSE /\ roundsStarted = Len(Intervals)
              /\ recommended = 0

C18_OneRequestRecordPerVisit ==
  (loggingEnabled /\ pc \in {"none", "navret", "done"}) => requestLogs = navCalls

\* C19: the step of navigate that classifies the evidence updates the session
\* the same way for every verdict: requestCount + 1, lastRequestTime = now,
\* and page, context and browser stay open, so the session still accepts
\* visits after a banned one.
C19_UpdateIgnoresVerdict ==
  [][ (pc = "detect" /\ pc' = "navret" /\ raisedAt' = "none") =>
        /\ requestCount' = requestCount + 1
        /\ lastRequestTime' = now
        /\ page' = page /\ context' = context /\ browser' = browser
        /\ everClosed' = everClosed ]_vars

\* a second visit is accepted on the session whose first visit was banned
\* through HTTP 403
C19_Witness ==
  /\ pc = "goto"
  /\ navCalls = 2 /\ inits = 1
  /\ responses = 0
  /\ monitors = <<403, NullCode>>
  /\ requestCount = 1
  /\ page

\* C20: a call with pattern A performs exactly one action, a wait of 2000 ms,
\* for every delay range and viewport.
C20_MechanicalIsOneFixedWait ==
  (behaviorOptions.pattern = "A" /\ hpc \in {"acting", "returned"}) =>
    /\ acted \o plan = <<Wait(2000)>>
    /\ hpc = "returned" => acted = <<Wait(2000)>>

C20_Witness ==
  /\ behaviorOptions.pattern = "A"
  /\ behaviorOptions.minDelay > behaviorOptions.maxDelay
  /\ viewport = NoViewport
  /\ hpc = "returned"
  /\ acted = <<Wait(2000)>>

\* the number of actions of one kind in a sequence of actions
CountKind(actions, kind) ==
  Cardinality({i \in DOMAIN actions : actions[i].kind = kind})

\* C21: every call with pattern C performs at least one pointer move and
\* between 2 and 4 scroll actions, for every outcome of the random draws.
C21_AdvancedMovesAndScrolls ==
  (behaviorOptions.pattern = "C" /\ hpc = "returned") =>
    /\ CountKind(acted, "move") >= 1
    /\ CountKind(acted, "scroll") \in 2..4

\* the move actions of a sequence of actions, in order
MovesOf(actions) == SelectSeq(actions, LAMBDA a : a.kind = "move")

\* C22: every call stays within the declared bounds for every outcome of the
\* random draws (2 to 4 forward scrolls and at most one reverse scroll per
\* scroll sequence, 10 to 29 steps per pointer move, at most one hover move
\* besides the main one), and every call returns.
C22_WithinDeclaredBounds ==
  hpc \in {"acting", "returned"} =>
    LET all == acted \o plan
        moves == MovesOf(all)
        forward == Cardinality({i \in DOMAIN all : all[i].kind = "scroll" /\ all[i].arg > 0})
        reverse == Cardinality({i \in DOMAIN all : all[i].kind = "scroll" /\ all[i].arg < 0})
        pointerMoves == Cardinality({j \in DOMAIN moves : moves[j].arg = 0})
    IN /\ behaviorOptions.pattern \in {"B", "C"} => (forward \in 2..4 /\ reverse <= 1)
       /\ behaviorOptions.pattern \notin {"B", "C"} => (forward = 0 /\ reverse = 0)
       /\ \A j \in DOMAIN moves :
            /\ moves[j].arg \in 0..29
            /\ (j = Len(moves) \/ moves[j + 1].arg = 0) => moves[j].arg \in 10..29
            /\ (j < Len(moves) /\ moves[j + 1].arg # 0) => moves[j + 1].arg = moves[j].arg + 1
       /\ pointerMoves <= (IF behaviorOptions.pattern = "C" THEN 2 ELSE 0)
       /\ Len(all) <= 133

C22_PlansAreBoundedAndReturn ==
  /\ []C22_WithinDeclaredBounds
  /\ <>(hpc = "returned")

C22_Witness ==
  /\ behaviorOptions.pattern = "C"
  /\ hpc = "returned"
  /\ CountKind(acted, "scroll") = 5
  /\ CountKind(acted, "move") = 60
  /\ Len(acted) = 133

\* the path of a URL that parses: what follows the host
PathOf(u) == SubSeq(u, HostEnd(u, 2) + 1, Len(u))

PathHasBlockFragment(u) ==
  \E i \in 1..Len(BLOCK_PAGE_PATTERNS) : Includes(PathOf(u), BLOCK_PAGE_PATTERNS[i])

\* host tokens that are whole DNS labels ending in a dot
DnsLabels == {"www."}

\* current is expected with one or more labels in front
IsSubdomainOf(current, expected) ==
  /\ Len(current) > Len(expected)
  /\ SubSeq(current, Len(current) - Len(expected) + 1, Len(current)) = expected
  /\ \A i \in 1..(Len(current) - Len(expected)) : current[i] \in DnsLabels

\* C23: unexpectedRedirect is set exactly when the final URL's path contains a
\* block-page fragment or the final host differs from the expected host and
\* is not a subdomain of it; a foreign host that only contains the expected
\* host name as a substring is flagged.
C23_RedirectChannel ==
  (detOut.called /\ ~detOut.threw) =>
    LET expected == Hostname(detIn.expectedUrl)
        current == Hostname(detIn.pg.url)
    IN detOut.signals.unexpectedRedirect <=>
         \/ PathHasBlockFragment(detIn.pg.url)
         \/ (current # expected /\ ~IsSubdomainOf(current, expected))

\* C24: in a run started with --no-stealth no browser of the run is launched
\* with the stealth plugin registered.
C24_NoStealthFlagDisablesPlugin ==
  (args.noStealth /\ browser) => ~browserStealth

\* C25: a delay of randomDelay(min, max) with min <= max lies in [min, max]
\* for every pair of samples, the boundary sample 0 included; the sample pair
\* with normal 0 gives the midpoint and mirrored pairs give delays mirrored
\* about the midpoint (3000 for 1000 and 5000).
C25_DelayWithinRange ==
  (delayOut # Undefined /\ delayIn.min <= delayIn.max) =>
    LET min == delayIn.min
        max == delayIn.max
    IN  /\ delayOut \in min..max
        /\ BoxMuller(delayIn.u1, delayIn.u2) = 0 =>
             2 * delayOut \in {min + max, min + max + 1}
        /\ delayIn.u1 # 0 =>
             delayOut + DelayOf(min, max, delayIn.u1, 50 - delayIn.u2)
               \in (min + max - 1)..(min + max + 1)
        /\ (min = 1000 /\ max = 5000 /\ delayIn.u2 = 25 /\ delayIn.u1 # 0) =>
             delayOut = 3000

C25_Witness ==
  /\ delayIn = [min |-> 1000, max |-> 5000, u1 |-> 0, u2 |-> 50]
  /\ delayOut = 1000

\* C26: a pointer move emits steps + 1 points, steps in 10..29, in increasing
\* order of i; the first point is exactly the start point and the last point
\* exactly the end point.
C26_PointSequence ==
  bezOut # <<>> =>
    /\ bezIn.steps \in 10..29
    /\ Len(bezOut) = bezIn.steps + 1
    /\ \A k \in DOMAIN bezOut : bezOut[k].i = k - 1
    /\ 100 * bezOut[1].x = bezIn.startX /\ 100 * bezOut[1].y = bezIn.startY
    /\ 100 * bezOut[Len(bezOut)].x = bezIn.endX
    /\ 100 * bezOut[Len(bezOut)].y = bezIn.endY

C29_HttpErrorIsOfThisVisit ==
  (pc \in {"navret", "done"}) =>
    /\ (navResult.banSignals.httpError # NullCode => firstBlocking # NullCode)
    /\ (scrapeResult.banSignals.httpError # NullCode => firstBlocking # NullCode)

C29_Witness ==
  /\ pc = "navret" /\ raisedAt = "none"
  /\ navCalls = 2
  /\ Len(monitors) = 2
  /\ monitors[1] \in BlockingStatus
  /\ responses = 0
  /\ navResult.returned
  /\ navResult.banSignals.httpError = NullCode

\* C30: requestCount belongs to one session object: it is 0 after
\* construction, never decreases, changes only while navigate runs and by at
\* most 1 per call, and is left alone by extraction, initialize and close; a
\* new instance (a new round of the rate-limit test) starts again at 0 and
\* its first visit has no intervalSinceLastMs.
C30_StepKeepsCount ==
  IF rround' # rround
    THEN requestCount' = 0 /\ lastRequestTime' = 0
    ELSE /\ requestCount' - requestCount \in {0, 1}
         /\ requestCount' # requestCount =>
              (pc \in {"goto", "behavior", "detect"} /\ pc' = "navret")

C30_CountOfThisInstance ==
  /\ rpc = "init" => requestCount = 0
  /\ pc # "none" => requestCount - rcAtCall \in {0, 1}
  /\ (rpc = "visiting" /\ roundVisits[rround].visits = 1 /\ pc # "none") =>
       (rcAtCall = 0 /\ intervalSinceLastMs = Undefined)
  /\ rround > 0 => requestCount <= roundVisits[rround].visits

C30_CounterOwnedBySession ==
  /\ []C30_CountOfThisInstance
  /\ [][C30_StepKeepsCount]_vars

C30_Witness ==
  /\ rround = 2 /\ rpc = "visiting"
  /\ roundVisits[1].visits = requestsPerInterval
  /\ roundVisits[2].visits = 1
  /\ pc = "goto"
  /\ requestCount = 0 /\ intervalSinceLastMs = Undefined

\* C31: in the signals detectBanSignals returns and in the signals navigate
\* and scrape return, blockedUrl is set exactly when unexpectedRedirect is
\* set, and then it is the URL the page ended on; a reason "Redirect to"
\* computed from such signals carries that URL.
RedirectAgrees(signals, finalUrl) ==
  /\ (signals.blockedUrl # NullUrl) <=> signals.unexpectedRedirect
  /\ signals.unexpectedRedirect => signals.blockedUrl = finalUrl
  /\ getBanReason(signals).kind = "Redirect to" =>
       (getBanReason(signals).url = finalUrl /\ finalUrl # NullUrl)

C31_BlockedUrlIffRedirect ==
  /\ (detOut.called /\ ~detOut.threw) => RedirectAgrees(detOut.signals, detIn.pg.url)
  /\ (pc \in {"navret", "done"}) =>
       /\ RedirectAgrees(navResult.banSignals, pageState.url)
       /\ navResult.error.kind = "BAN detected" =>
            (navResult.error.reason.kind = "Redirect to" =>
               navResult.error.reason.url = pageState.url)
  /\ pc = "done" => RedirectAgrees(scrapeResult.banSignals, pageState.url)

C31_Witness ==
  /\ pc = "navret"
  /\ navResult.returned
  /\ navResult.banSignals.unexpectedRedirect
  /\ navResult.banSignals.blockedUrl = ForeignUrl
  /\ navResult.error.reason = [NoReason EXCEPT !.kind = "Redirect to", !.url = ForeignUrl]

\* C32: verdict and reason agree: getBanReason gives a reason exactly when
\* isBanned holds; navigate returns success only with signals that are not
\* banned, and returns the error "BAN detected: <reason>", with a reason,
\* exactly when the returned signals are banned.
C32_VerdictAndReasonAgree ==
  /\ clsOut.called => (clsOut.reason # NoReason <=> clsOut.banned)
  /\ (pc \in {"navret", "done"}) =>
       LET signals == navResult.banSignals
       IN  /\ navResult.returned
           /\ (getBanReason(signals) # NoReason) <=> isBanned(signals)
           /\ navResult.success => ~isBanned(signals)
           /\ isBanned(signals) <=> navResult.error.kind = "BAN detected"
           /\ navResult.error.kind = "BAN detected" =>
                /\ navResult.error.reason = getBanReason(signals)
                /\ navResult.error.reason # NoReason
           /\ (~navResult.success /\ ~isBanned(signals)) =>
                navResult.error.kind = "navigation"

C32_Witness ==
  /\ pc = "navret"
  /\ ~navResult.success
  /\ navResult.banSignals.unexpectedRedirect
  /\ ~navResult.banSignals.jsChallenge
  /\ navResult.banSignals.httpError = NullCode
  /\ navResult.error.kind = "BAN detected"
  /\ navResult.error.reason.kind = "Redirect to"

====
